---- MODULE Spec2Model ----
(***************************************************************************)
(* dns_unbound_cache_reader: update_dns_table / read_dns_cache.            *)
(*                                                                         *)
(* A text (a line, a name, an rdata) is a sequence of one-character        *)
(* strings, so that the regular expressions of the module are matched      *)
(* character by character, as re.match does.  A DNS table is a function    *)
(* whose domain is the set of its buckets ("IP", "ALIAS"); a bucket is a   *)
(* function from texts to texts.  Tables live in a heap of dict objects,   *)
(* one of which is the default value of the dns_table parameter.           *)
(***************************************************************************)
EXTENDS Integers, Sequences, FiniteSets, TLC

(* ---------------------------------------------------------------------- *)
(* Bounds                                                                 *)
(* ---------------------------------------------------------------------- *)

\* Calls of update_dns_table / read_dns_cache in one behaviour.
MaxCalls == 2

\* Record lines the line source delivers in one behaviour of Spec, all dumps
\* together.
MaxLines == 3

\* Record lines of the one dump of SpecParse, and of the two dumps of SpecMerge
\* together.
MaxLen == 3

(* ---------------------------------------------------------------------- *)
(* Characters and the character classes of the patterns                   *)
(* ---------------------------------------------------------------------- *)

Digit == {"0", "1", "2", "3", "4", "5", "6", "7", "8", "9"}

Upper == {"A", "B", "C", "D", "E", "F", "G", "H", "I", "J", "K", "L", "M",
          "N", "O", "P", "Q", "R", "S", "T", "U", "V", "W", "X", "Y", "Z"}

Lower == {"a", "b", "c", "d", "e", "f", "g", "h", "i", "j", "k", "l", "m",
          "n", "o", "p", "q", "r", "s", "t", "u", "v", "w", "x", "y", "z"}

\* \s, without the line break that split("\n") removes.
Space == {" ", "\t", "\r", "\f"}

\* [a-zA-Z0-9._-]
NameChar == Lower \cup Upper \cup Digit \cup {".", "_", "-"}

\* [a-zA-Z0-9.-]
SrvChar == Lower \cup Upper \cup Digit \cup {".", "-"}

\* s[i..j], empty when j < i.
Sub(s, i, j) == SubSeq(s, i, j)

\* The index after the longest run of characters of class C that starts at i:
\* what a greedy C* consumes.
RECURSIVE SpanEnd(_, _, _)
SpanEnd(s, i, C) ==
    IF i <= Len(s) /\ s[i] \in C THEN SpanEnd(s, i + 1, C) ELSE i

\* str.startswith(p)
StartsWith(s, p) == Len(s) >= Len(p) /\ Sub(s, 1, Len(p)) = p

\* The text t stands in s at index i.
LiteralAt(s, i, t) == i + Len(t) - 1 <= Len(s) /\ Sub(s, i, i + Len(t) - 1) = t

\* if x.endswith("."): x = x[:-1]
StripDot(s) == IF Len(s) > 0 /\ s[Len(s)] = "." THEN Sub(s, 1, Len(s) - 1) ELSE s

\* re.match found nothing.
NoMatch == [matched |-> FALSE]

(* ---------------------------------------------------------------------- *)
(* Global variables of the module                                         *)
(* ---------------------------------------------------------------------- *)

\* to_skip = (";", "START", "END", "EOF")
to_skip == { <<";">>, <<"S", "T", "A", "R", "T">>, <<"E", "N", "D">>, <<"E", "O", "F">> }

\* DnsCacheSection.START_RRSET.value
START_RRSET == <<"S","T","A","R","T","_","R","R","S","E","T","_","C","A","C","H","E">>

\* DnsCacheSection.END_RRSET.value
END_RRSET == <<"E","N","D","_","R","R","S","E","T","_","C","A","C","H","E">>

\* DnsRtype._member_names_
DnsRtype == { <<"A">>, <<"C","N","A","M","E">>, <<"P","T","R">>,
              <<"A","A","A","A">>, <<"S","R","V">> }

\* DnsTableKeys._member_names_: the buckets of a table.
DnsTableKeys == {"IP", "ALIAS"}

\* pattern_line = ^([a-zA-Z0-9._-]+)\s+(\d+)\s+IN\s+([A-Z]+)\s+(.+)$
\* Every repetition but the last \s+ is followed by a character outside its
\* class, so the greedy extent is the only one.  The last \s+ gives one blank
\* back to (.+) when nothing else follows it.
pattern_line(s) ==
    LET n == SpanEnd(s, 1, NameChar)
        a == SpanEnd(s, n, Space)
        d == SpanEnd(s, a, Digit)
        b == SpanEnd(s, d, Space)
        c == SpanEnd(s, b + 2, Space)
        t == SpanEnd(s, c, Upper)
        e == SpanEnd(s, t, Space)
    IN  IF /\ n > 1 /\ a > n /\ d > a /\ b > d
           /\ LiteralAt(s, b, <<"I", "N">>)
           /\ c > b + 2 /\ t > c /\ e > t
           /\ (e <= Len(s) \/ e > t + 1)
        THEN [matched |-> TRUE,
              qname   |-> Sub(s, 1, n - 1),
              ttl     |-> Sub(s, a, d - 1),
              rtype   |-> Sub(s, c, t - 1),
              rdata   |-> IF e <= Len(s) THEN Sub(s, e, Len(s))
                                         ELSE Sub(s, Len(s), Len(s))]
        ELSE NoMatch

\* pattern_ipv4_byte = (25[0-5]|2[0-4][0-9]|1[0-9]{2}|[1-9]?[0-9]) at index i:
\* the indices after the byte, in the order the backtracking matcher tries them.
pattern_ipv4_byte(s, i) ==
    LET at(k, C) == k <= Len(s) /\ s[k] \in C
        three == \/ at(i, {"2"}) /\ at(i + 1, {"5"}) /\ at(i + 2, {"0","1","2","3","4","5"})
                 \/ at(i, {"2"}) /\ at(i + 1, {"0","1","2","3","4"}) /\ at(i + 2, Digit)
                 \/ at(i, {"1"}) /\ at(i + 1, Digit) /\ at(i + 2, Digit)
        two   == at(i, Digit \ {"0"}) /\ at(i + 1, Digit)
        one   == at(i, Digit)
    IN  (IF three THEN <<i + 3>> ELSE <<>>)
        \o (IF two THEN <<i + 2>> ELSE <<>>)
        \o (IF one THEN <<i + 1>> ELSE <<>>)

\* The tail of pattern_ptr at index j: r".in-addr.arpa", whose dots are not
\* escaped and match any character; nothing anchors the end of the name.
PtrSuffixAt(s, j) ==
    /\ j + 12 <= Len(s)
    /\ LiteralAt(s, j + 1, <<"i","n","-","a","d","d","r">>)
    /\ LiteralAt(s, j + 9, <<"a","r","p","a">>)

\* Bytes k..4 of pattern_ptr from index i: the captured groups of the first
\* match in backtracking order, or <<>> when there is none.
RECURSIVE PtrFrom(_, _, _)
PtrFrom(s, i, k) ==
    LET ends == pattern_ipv4_byte(s, i)
        try(j) == IF k < 4
                  THEN IF j <= Len(s) /\ s[j] = "."
                       THEN LET r == PtrFrom(s, j + 1, k + 1)
                            IN  IF r = <<>> THEN <<>> ELSE <<Sub(s, i, j - 1)>> \o r
                       ELSE <<>>
                  ELSE IF PtrSuffixAt(s, j) THEN <<Sub(s, i, j - 1)>> ELSE <<>>
        good == { n \in 1..Len(ends) : try(ends[n]) # <<>> }
    IN  IF good = {} THEN <<>>
        ELSE try(ends[CHOOSE n \in good : \A m \in good : n <= m])

\* re.match(pattern_ptr, qname)
\* pattern_ptr = (pattern_ipv4_byte + r"\.") * 3 + pattern_ipv4_byte + r".in-addr.arpa"
pattern_ptr(qname) ==
    LET g == PtrFrom(qname, 1, 1)
    IN  IF g = <<>> THEN NoMatch ELSE [matched |-> TRUE, groups |-> g]

\* re.match(pattern_srv, rdata); pattern_srv = ^(\d+)\s+(\d+)\s+(\d+)\s+([a-zA-Z0-9.-]+)$
pattern_srv(s) ==
    LET p == SpanEnd(s, 1, Digit)
        a == SpanEnd(s, p, Space)
        w == SpanEnd(s, a, Digit)
        b == SpanEnd(s, w, Space)
        o == SpanEnd(s, b, Digit)
        c == SpanEnd(s, o, Space)
        t == SpanEnd(s, c, SrvChar)
    IN  IF p > 1 /\ a > p /\ w > a /\ b > w /\ o > b /\ c > o /\ t > c /\ t = Len(s) + 1
        THEN [matched |-> TRUE, target |-> Sub(s, c, Len(s))]
        ELSE NoMatch

\* ".".join(reversed(match_ptr.groups()))
JoinReversed(g) == g[4] \o <<".">> \o g[3] \o <<".">> \o g[2] \o <<".">> \o g[1]

(* ---------------------------------------------------------------------- *)
(* The lines a dump is made of                                            *)
(* ---------------------------------------------------------------------- *)

\* a 1 IN A 1.2.3.4   (A record: IP[1.2.3.4] = a)
LineA ==
    <<"a"," ","1"," ","I","N"," ","A"," ","1",".","2",".","3",".","4">>

\* b. 1 IN A 1.2.3.4   (A record for the same address, another name)
LineA2 ==
    <<"b","."," ","1"," ","I","N"," ","A"," ","1",".","2",".","3",".","4">>

\* a 1 IN AAAA ::1   (AAAA record: IP[::1] = a)
LineAAAA ==
    <<"a"," ","1"," ","I","N"," ","A","A","A","A"," ",":",":","1">>

\* b. 1 IN CNAME a.   (CNAME record: ALIAS[a] = b)
LineCNAME ==
    <<"b","."," ","1"," ","I","N"," ","C","N","A","M","E"," ","a",".">>

\* c 1 IN SRV 0 0 80 b.   (SRV record: ALIAS[b] = c)
LineSRV ==
    <<"c"," ","1"," ","I","N"," ","S","R","V"," ","0"," ","0"," ","8","0"," ","b",".">>

\* c 1 IN SRV 0 80 b   (SRV record whose rdata lacks a field)
LineSRVBad ==
    <<"c"," ","1"," ","I","N"," ","S","R","V"," ","0"," ","8","0"," ","b">>

\* 4.3.2.1.in-addr.arpa. 1 IN PTR c.   (PTR record of a reverse lookup of 1.2.3.4)
LinePTR ==
    <<"4",".","3",".","2",".","1",".","i","n","-","a","d","d","r",".","a","r","p","a","."," ","1"," ","I","N"," ","P","T","R"," ","c",".">>

\* 4.3.2.1.in-addr.arpa.x. 1 IN PTR c.   (PTR record of a name under x that begins like a reverse lookup)
LinePTRSub ==
    <<"4",".","3",".","2",".","1",".","i","n","-","a","d","d","r",".","a","r","p","a",".","x","."," ","1"," ","I","N"," ","P","T","R"," ","c",".">>

\* a. 1 IN PTR c.   (PTR record of a generic name: ALIAS[a] = c)
LinePTRGen ==
    <<"a","."," ","1"," ","I","N"," ","P","T","R"," ","c",".">>

\* a 1 IN MX 5 b.   (record of a type outside DnsRtype)
LineMX ==
    <<"a"," ","1"," ","I","N"," ","M","X"," ","5"," ","b",".">>

\* ;rrset 1 1 0 2 0   (metadata line of the dump)
LineMeta ==
    <<";","r","r","s","e","t"," ","1"," ","1"," ","0"," ","2"," ","0">>

\* msg a. IN A 1   (line of the dump that is no record)
LineMsg ==
    <<"m","s","g"," ","a","."," ","I","N"," ","A"," ","1">>

\* The lines of the dumps of SpecParse and SpecMerge.
LinePool == { LineA, LineA2, LineAAAA, LineCNAME,
             LineSRV, LineSRVBad, LinePTR, LinePTRSub,
             LinePTRGen, LineMX, LineMeta, LineMsg }

\* The lines of the dumps of Spec: the records that write and overwrite.
CorePool == { LineA, LineA2, LineAAAA, LineCNAME, LineSRV, LinePTR }

TxtA == <<"a">>

TxtB == <<"b">>

TxtC == <<"c">>

Ip4 == <<"1",".","2",".","3",".","4">>

(* ---------------------------------------------------------------------- *)
(* Tables                                                                 *)
(* ---------------------------------------------------------------------- *)

\* {}
EmptyDict == [k \in {} |-> <<>>]

\* d[k] = v
Put(d, k, v) == [x \in DOMAIN d \cup {k} |-> IF x = k THEN v ELSE d[x]]

\* dns_table.get(b, {})
Bucket(table, b) == IF b \in DOMAIN table THEN table[b] ELSE EmptyDict

\* Store with the bucket made anew at every write: dns_table[b] = {k: v}.
StoreReplaces(table, b, k, v) == Put(table, b, Put(EmptyDict, k, v))

\* if b in dns_table: dns_table[b][k] = v
\* else:              dns_table[b] = {k: v}
Store(table, b, k, v) ==
    IF b \in DOMAIN table
    THEN [table EXCEPT ![b] = Put(table[b], k, v)]
    ELSE Put(table, b, Put(EmptyDict, k, v))

(* ---------------------------------------------------------------------- *)
(* One turn of the loop over the RRSET section                            *)
(* ---------------------------------------------------------------------- *)

RtypeA == <<"A">>

RtypeAAAA == <<"A","A","A","A">>

RtypeCNAME == <<"C","N","A","M","E">>

RtypeSRV == <<"S","R","V">>

RtypePTR == <<"P","T","R">>

\* line.startswith(to_skip)
IsMetadata(line) == \E p \in to_skip : StartsWith(line, p)

\* The fields of a line that passes the three skips at the head of the loop
\* body, qname and rdata with their trailing dot stripped; NoMatch for a line
\* the loop skips there.
DecodeLine(line) ==
    IF IsMetadata(line) THEN NoMatch
    ELSE LET match == pattern_line(line)
         IN  IF ~match.matched THEN NoMatch
             ELSE IF match.rtype \notin DnsRtype THEN NoMatch
             ELSE [matched |-> TRUE,
                   qname   |-> StripDot(match.qname),
                   rtype   |-> match.rtype,
                   rdata   |-> StripDot(match.rdata)]

\* AddressRecord that keeps the entry the bucket has, as PtrRecord does.
AddressRecordKeeps(table, qname, rdata) ==
    IF rdata \in DOMAIN Bucket(table, "IP") THEN table
    ELSE Store(table, "IP", rdata, qname)

\* A (IPv4) and AAAA (IPv6) records
AddressRecord(table, qname, rdata) == Store(table, "IP", rdata, qname)

\* CNAME records
CnameRecord(table, qname, rdata) == Store(table, "ALIAS", rdata, qname)

\* SrvRecord without the skip of a target that does not match.
SrvRecordUnchecked(table, qname, rdata) ==
    IF ~pattern_srv(rdata).matched THEN Store(table, "ALIAS", rdata, qname)
    ELSE Store(table, "ALIAS", StripDot(pattern_srv(rdata).target), qname)

\* SRV records
SrvRecord(table, qname, rdata) ==
    LET match_srv == pattern_srv(rdata)
    IN  IF ~match_srv.matched THEN table
        ELSE Store(table, "ALIAS", StripDot(match_srv.target), qname)

\* PtrRecord without the test that the address is absent.
PtrRecordOverwrites(table, qname, rdata) ==
    IF pattern_ptr(qname).matched
    THEN Store(table, "IP", JoinReversed(pattern_ptr(qname).groups), rdata)
    ELSE Store(table, "ALIAS", qname, rdata)

\* PTR records
PtrRecord(table, qname, rdata) ==
    LET match_ptr == pattern_ptr(qname)
    IN  IF match_ptr.matched
        THEN LET ip == JoinReversed(match_ptr.groups)
             IN  IF ip \notin DOMAIN Bucket(table, "IP")
                 THEN Store(table, "IP", ip, rdata)
                 ELSE table
        ELSE Store(table, "ALIAS", qname, rdata)

\* The body of the loop, for one line.
LoopBody(table, line) ==
    LET r == DecodeLine(line)
    IN  IF ~r.matched THEN table
        ELSE IF r.rtype \in {RtypeA, RtypeAAAA} THEN AddressRecord(table, r.qname, r.rdata)
        ELSE IF r.rtype = RtypeCNAME THEN CnameRecord(table, r.qname, r.rdata)
        ELSE IF r.rtype = RtypeSRV THEN SrvRecord(table, r.qname, r.rdata)
        ELSE IF r.rtype = RtypePTR THEN PtrRecord(table, r.qname, r.rdata)
        ELSE table

\* Post-processing that follows an alias of an alias: two hops.
PostProcessTwoHops(table) ==
    IF "IP" \in DOMAIN table /\ "ALIAS" \in DOMAIN table
    THEN LET hop(v) == IF v \in DOMAIN table["ALIAS"] THEN table["ALIAS"][v] ELSE v
         IN  [table EXCEPT !["IP"] = [ip \in DOMAIN table["IP"] |-> hop(hop(table["IP"][ip]))]]
    ELSE table

\* Post-processing: replace all cnames with aliases.  The loop assigns to keys
\* the IP bucket already has and reads the ALIAS bucket, which it leaves alone,
\* so every entry is rewritten from its own value of before the loop.
PostProcess(table) ==
    IF "IP" \in DOMAIN table /\ "ALIAS" \in DOMAIN table
    THEN [table EXCEPT !["IP"] =
            [ip \in DOMAIN table["IP"] |->
                IF table["IP"][ip] \in DOMAIN table["ALIAS"]
                THEN table["ALIAS"][table["IP"][ip]]
                ELSE table["IP"][ip]]]
    ELSE table

\* list.index(x), counted from 0; the list holds x.
IndexOf(list, x) == (CHOOSE i \in 1..Len(list) : list[i] = x /\ \A j \in 1..(i - 1) : list[j] # x) - 1

Holds(list, x) == \E i \in 1..Len(list) : list[i] = x

\* Find start and end indices of RRSET section.
FindSection(cache) ==
    IF Holds(cache, START_RRSET) /\ Holds(cache, END_RRSET)
    THEN [start_idx |-> IndexOf(cache, START_RRSET), end_idx |-> IndexOf(cache, END_RRSET)]
    ELSE [start_idx |-> 0, end_idx |-> Len(cache)]

\* text.strip().split("\n") of a dump whose lines are `lines`: a dump without
\* text splits into one empty line.
SplitLines(lines) == IF lines = <<>> THEN << <<>> >> ELSE lines

(* ---------------------------------------------------------------------- *)
(* The parse of a dump as a function                                      *)
(* ---------------------------------------------------------------------- *)

\* dns_cache[start_idx+1:end_idx]
Slice(cache, start, end) ==
    IF start + 1 >= end \/ start + 1 >= Len(cache) THEN <<>>
    ELSE SubSeq(cache, start + 2, IF end < Len(cache) THEN end ELSE Len(cache))

\* The loop over the lines, from the first to the last.
RECURSIVE Fold(_, _)
Fold(table, lines) ==
    IF lines = <<>> THEN table
    ELSE Fold(LoopBody(table, Head(lines)), Tail(lines))

\* ParseDump that starts from an empty table instead of the one it is given.
ParseDumpFromEmpty(table, cache) ==
    PostProcess(Fold(EmptyDict, Slice(cache, FindSection(cache).start_idx,
                                             FindSection(cache).end_idx)))

\* update_dns_table from "Parse DNS cache" to its return, for the table and
\* the dns_cache it has got.
ParseDump(table, cache) ==
    PostProcess(Fold(table, Slice(cache, FindSection(cache).start_idx,
                                         FindSection(cache).end_idx)))

(* ---------------------------------------------------------------------- *)
(* The line source                                                        *)
(* ---------------------------------------------------------------------- *)

\* The shapes of a dump: where the section markers stand around its records.
Framings == {"none", "both", "start_only", "end_only", "after"}

\* The lines of a dump of shape f with the record lines `body`.  "after" is a
\* dump whose records follow the RRSET section.
Frame(f, body) ==
    CASE f = "none"       -> body
      [] f = "both"       -> <<START_RRSET>> \o body \o <<END_RRSET>>
      [] f = "start_only" -> <<START_RRSET>> \o body
      [] f = "end_only"   -> body \o <<END_RRSET>>
      [] f = "after"      -> <<START_RRSET, END_RRSET>> \o body

\* The sequences of at most n lines of pool.
Bodies(pool, n) == UNION { [1..k -> pool] : k \in 0..n }

(* ---------------------------------------------------------------------- *)
(* State                                                                  *)
(* ---------------------------------------------------------------------- *)

VARIABLES
    heap,           \* the dict objects: object -> table
    held,           \* the table the caller holds: the last one returned
    pc,             \* where the call stands
    dns_table,      \* the parameter of update_dns_table: an object
    entry,          \* the value of that object when the call was made
    fetch,          \* how obtaining the dump ended
    dns_cache,      \* the lines of the dump
    cache_is_none,  \* dns_cache is None
    start_idx,
    end_idx,
    idx,            \* index in dns_cache of the line the loop is at
    calls,          \* calls made
    fed,            \* record lines delivered
    merge           \* SpecMerge: two dumps and the tables made of them

vars == <<heap, held, pc, dns_table, entry, fetch, dns_cache, cache_is_none,
          start_idx, end_idx, idx, calls, fed, merge>>

\* The dict that is the default value of the dns_table parameter, made once
\* when the function is defined.
DefaultObj == <<"default", 0>>

NoObj == <<"none", 0>>

\* The dict the n-th call makes.
NewObj(n) == <<"dict", n>>

NoMerge == [stage |-> "off"]

\* No call is under way and none was made.
Idle ==
    /\ heap = [o \in {DefaultObj} |-> EmptyDict]
    /\ held = NoObj
    /\ pc = "idle"
    /\ dns_table = NoObj
    /\ entry = EmptyDict
    /\ fetch = "none"
    /\ dns_cache = <<>>
    /\ cache_is_none = FALSE
    /\ start_idx = 0
    /\ end_idx = 0
    /\ idx = 0
    /\ calls = 0
    /\ fed = 0

Init == Idle /\ merge = NoMerge

\* The call begins with dns_table bound to object o; limit bounds the calls.
Enter(o, limit) ==
    /\ pc = "idle"
    /\ calls < limit
    /\ calls' = calls + 1
    /\ dns_table' = o
    /\ pc' = "fetch"
    /\ fetch' = "none"
    /\ UNCHANGED <<held, dns_cache, cache_is_none, start_idx, end_idx, idx, fed, merge>>

\* read_dns_cache(host, file): update_dns_table({}, host, file)
read_dns_cache(limit) ==
    /\ Enter(NewObj(calls + 1), limit)
    /\ heap' = Put(heap, NewObj(calls + 1), EmptyDict)
    /\ entry' = EmptyDict

\* update_dns_table(host=..., file=...): dns_table takes its default value.
update_dns_table_default(limit) ==
    /\ Enter(DefaultObj, limit)
    /\ entry' = heap[DefaultObj]
    /\ UNCHANGED heap

\* update_dns_table(dns_table, ...): the table an earlier call returned.
update_dns_table_held(limit) ==
    /\ held # NoObj
    /\ Enter(held, limit)
    /\ entry' = heap[held]
    /\ UNCHANGED heap

\* dns_cache = <text>.strip().split("\n"), for a dump of the line source with
\* at most n record lines of pool.
GotDump(pool, n) ==
    \E f \in Framings : \E body \in Bodies(pool, n - fed) :
        /\ dns_cache' = SplitLines(Frame(f, body))
        /\ fed' = fed + Len(body)
        /\ cache_is_none' = FALSE
        /\ fetch' = "ok"
        /\ pc' = "index"

\* An exception leaves the function before dns_cache is assigned.
Raise ==
    /\ fetch' = "raised"
    /\ pc' = "raised"
    /\ UNCHANGED <<dns_cache, cache_is_none, fed>>

\* file is not None: open(file) raises, or the file is read.
FetchFile(pool, n) ==
    /\ pc = "fetch"
    /\ \/ Raise
       \/ GotDump(pool, n)
    /\ UNCHANGED <<heap, held, dns_table, entry, start_idx, end_idx, idx, calls, merge>>

\* host in localhost: subprocess.run raises (no such command), or the command
\* ends with an error and nothing on its standard output, which run() without
\* check=True returns like any result, or the command prints the dump.
FetchLocal(pool, n) ==
    /\ pc = "fetch"
    /\ \/ Raise
       \/ /\ dns_cache' = SplitLines(<<>>)
          /\ cache_is_none' = FALSE
          /\ fetch' = "failed_local"
          /\ pc' = "index"
          /\ UNCHANGED fed
       \/ GotDump(pool, n)
    /\ UNCHANGED <<heap, held, dns_table, entry, start_idx, end_idx, idx, calls, merge>>

\* Remote host: Connection raises, or remote.run(cmd, warn=True) reports
\* result.failed and dns_cache stays None, or the command prints the dump.
FetchRemote(pool, n) ==
    /\ pc = "fetch"
    /\ \/ Raise
       \/ /\ cache_is_none' = TRUE
          /\ fetch' = "failed_remote"
          /\ pc' = "index"
          /\ UNCHANGED <<dns_cache, fed>>
       \/ GotDump(pool, n)
    /\ UNCHANGED <<heap, held, dns_table, entry, start_idx, end_idx, idx, calls, merge>>

\* try: dns_cache.index(...) except ValueError: the whole list.  None has no
\* index: the AttributeError is not caught.
FindSectionStep ==
    /\ pc = "index"
    /\ IF cache_is_none
       THEN /\ pc' = "raised"
            /\ UNCHANGED <<start_idx, end_idx, idx>>
       ELSE /\ start_idx' = FindSection(dns_cache).start_idx
            /\ end_idx' = FindSection(dns_cache).end_idx
            /\ idx' = FindSection(dns_cache).start_idx + 1
            /\ pc' = "loop"
    /\ UNCHANGED <<heap, held, dns_table, entry, fetch, dns_cache, cache_is_none,
                   calls, fed, merge>>

\* The loop has lines left in dns_cache[start_idx+1:end_idx].
InSlice == idx < end_idx /\ idx < Len(dns_cache)

\* for line in dns_cache[start_idx+1:end_idx]: one turn.
LoopStep ==
    /\ pc = "loop"
    /\ InSlice
    /\ heap' = [heap EXCEPT ![dns_table] = LoopBody(@, dns_cache[idx + 1])]
    /\ idx' = idx + 1
    /\ UNCHANGED <<held, pc, dns_table, entry, fetch, dns_cache, cache_is_none,
                   start_idx, end_idx, calls, fed, merge>>

\* The loop is over: post-processing, up to the return statement.
PostProcessStep ==
    /\ pc = "loop"
    /\ ~InSlice
    /\ heap' = [heap EXCEPT ![dns_table] = PostProcess(@)]
    /\ pc' = "return"
    /\ UNCHANGED <<held, dns_table, entry, fetch, dns_cache, cache_is_none,
                   start_idx, end_idx, idx, calls, fed, merge>>

\* The caller is back in control and the frame of the call is gone; dicts
\* nobody refers to any more are freed.
Leave(keep) ==
    /\ held' = keep
    /\ heap' = [o \in {DefaultObj} \cup ({keep} \ {NoObj}) |-> heap[o]]
    /\ pc' = "idle"
    /\ dns_table' = NoObj
    /\ entry' = EmptyDict
    /\ fetch' = "none"
    /\ dns_cache' = <<>>
    /\ cache_is_none' = FALSE
    /\ start_idx' = 0
    /\ end_idx' = 0
    /\ idx' = 0
    /\ UNCHANGED <<calls, fed, merge>>

\* return dns_table: the caller keeps what the call returns.
Return ==
    /\ pc = "return"
    /\ Leave(dns_table)

\* The exception reaches the caller, who keeps the table it held.
Propagate ==
    /\ pc = "raised"
    /\ Leave(held)

\* Calls one after the other, on the default table, on a new one or on the one
\* the last call returned.
Next ==
    \/ read_dns_cache(MaxCalls)
    \/ update_dns_table_default(MaxCalls)
    \/ update_dns_table_held(MaxCalls)
    \/ FetchFile(CorePool, MaxLines)
    \/ FetchLocal(CorePool, MaxLines)
    \/ FetchRemote(CorePool, MaxLines)
    \/ FindSectionStep
    \/ LoopStep
    \/ PostProcessStep
    \/ Return
    \/ Propagate

Spec == Init /\ [][Next]_vars

\* One call, on dumps of every kind of line.
NextParse ==
    \/ read_dns_cache(1)
    \/ update_dns_table_default(1)
    \/ FetchFile(LinePool, MaxLen)
    \/ FetchLocal(LinePool, MaxLen)
    \/ FetchRemote(LinePool, MaxLen)
    \/ FindSectionStep
    \/ LoopStep
    \/ PostProcessStep
    \/ Return
    \/ Propagate

SpecParse == Init /\ [][NextParse]_vars

(* ---------------------------------------------------------------------- *)
(* Two dumps read one after the other, and both read as one               *)
(* ---------------------------------------------------------------------- *)

\* The calls of Spec stay where they are.
NoCall ==
    UNCHANGED <<heap, held, pc, dns_table, entry, fetch, dns_cache, cache_is_none,
                start_idx, end_idx, idx, calls, fed>>

\* The line source has two dumps: the record lines l1 and the record lines l2,
\* each between the markers of the section.
MergeInput ==
    /\ merge.stage = "off"
    /\ \E s \in Bodies(LinePool, MaxLen) : \E k \in 0..Len(s) :
          merge' = [stage |-> "in", l1 |-> SubSeq(s, 1, k), l2 |-> SubSeq(s, k + 1, Len(s)),
                    first |-> EmptyDict, second |-> EmptyDict, single |-> EmptyDict]
    /\ NoCall

\* dns_table = read_dns_cache(file=<dump of l1>)
MergeFirst ==
    /\ merge.stage = "in"
    /\ merge' = [merge EXCEPT !.stage = "first",
                              !.first = ParseDump(EmptyDict, SplitLines(Frame("both", merge.l1)))]
    /\ NoCall

\* dns_table = update_dns_table(dns_table, file=<dump of l2>)
MergeSecond ==
    /\ merge.stage = "first"
    /\ merge' = [merge EXCEPT !.stage = "second",
                              !.second = ParseDump(merge.first, SplitLines(Frame("both", merge.l2)))]
    /\ NoCall

\* read_dns_cache(file=<dump of l1 followed by l2>)
MergeSingle ==
    /\ merge.stage = "second"
    /\ merge' = [merge EXCEPT !.stage = "done",
                              !.single = ParseDump(EmptyDict, SplitLines(Frame("both", merge.l1 \o merge.l2)))]
    /\ NoCall

NextMerge ==
    \/ MergeInput
    \/ MergeFirst
    \/ MergeSecond
    \/ MergeSingle

SpecMerge == Init /\ [][NextMerge]_vars

(* ---------------------------------------------------------------------- *)
(* Properties                                                             *)
(* ---------------------------------------------------------------------- *)

\* The table the call works on, and its buckets.
IPof(table) == Bucket(table, "IP")

ALIASof(table) == Bucket(table, "ALIAS")

\* The lines the loop of the call under way goes through.
Section == Slice(dns_cache, start_idx, end_idx)

\* The loop is about to take the line at idx.
AtLine == pc = "loop" /\ InSlice

\* The line the loop took last.
Taken == pc = "loop" /\ idx > start_idx + 1

\* The call as a whole is the function ParseDump of the table and the dump.
CallIsParseDump == pc = "return" => heap[dns_table] = ParseDump(entry, dns_cache)

\* C1: when the dump lacks START_RRSET_CACHE or END_RRSET_CACHE, every line of
\* the input, the line at index 0 included, is folded into the table: the
\* table returned is the one the loop over the whole input makes, post-processed.
C1_WholeInputParsed ==
    (/\ pc = "return"
     /\ fetch = "ok"
     /\ ~(Holds(dns_cache, START_RRSET) /\ Holds(dns_cache, END_RRSET)))
    => heap[dns_table] = PostProcess(Fold(entry, dns_cache))

\* The keys of bucket b that the record lines write.
WrittenKeys(lines, b) == DOMAIN Bucket(Fold(EmptyDict, lines), b)

\* C2, as claimed: for two record sequences that write disjoint IP keys and
\* disjoint ALIAS keys, reading the second dump into the table of the first
\* gives the table that reading both as one dump gives.
C2_DisjointMergeIsSingle ==
    (/\ merge.stage = "done"
     /\ WrittenKeys(merge.l1, "IP") \cap WrittenKeys(merge.l2, "IP") = {}
     /\ WrittenKeys(merge.l1, "ALIAS") \cap WrittenKeys(merge.l2, "ALIAS") = {})
    => merge.second = merge.single

\* The post-processing of the first call rewrote the entry of ip.
RewrittenByFirst(ip) ==
    LET folded == Fold(EmptyDict, merge.l1)
    IN  /\ ip \in DOMAIN IPof(folded)
        /\ IPof(folded)[ip] \in DOMAIN ALIASof(folded)

\* C2, amended: the two tables have the same buckets, the same ALIAS bucket,
\* the same IP keys, and the same value at every IP key but those whose entry
\* the post-processing of the first call rewrote; they are equal when it
\* rewrote none.
C2_MergeAgreesButRewritten ==
    merge.stage = "done"
    => /\ DOMAIN merge.second = DOMAIN merge.single
       /\ ALIASof(merge.second) = ALIASof(merge.single)
       /\ DOMAIN IPof(merge.second) = DOMAIN IPof(merge.single)
       /\ \A ip \in DOMAIN IPof(merge.single) :
             ~RewrittenByFirst(ip) => IPof(merge.second)[ip] = IPof(merge.single)[ip]
       /\ (\A ip \in DOMAIN IPof(merge.single) : ~RewrittenByFirst(ip))
             => merge.second = merge.single

\* Two dumps that both write, with disjoint keys, were merged, the second call
\* changed the table of the first, and the merge is the single read.
C2_Witness ==
    /\ merge.stage = "done"
    /\ WrittenKeys(merge.l1, "IP") # {}
    /\ WrittenKeys(merge.l2, "ALIAS") # {}
    /\ WrittenKeys(merge.l1, "IP") \cap WrittenKeys(merge.l2, "IP") = {}
    /\ WrittenKeys(merge.l1, "ALIAS") \cap WrittenKeys(merge.l2, "ALIAS") = {}
    /\ merge.second # merge.first
    /\ merge.second = merge.single

\* C3: a call made without a table argument starts from an empty table,
\* whatever the calls before it did.
C3_DefaultStartsEmpty ==
    (pc # "idle" /\ dns_table = DefaultObj) => entry = EmptyDict

\* C4: when obtaining the dump fails, the failure is propagated: the loop and
\* the post-processing are not reached, the call does not return a table, and
\* the table of the caller stays as it was.
C4_FailedFetchNoParse ==
    fetch \in {"raised", "failed_local", "failed_remote"}
    => /\ pc \notin {"loop", "return"}
       /\ heap[dns_table] = entry

\* C5: the turn of the loop for a PTR line leaves every key the IP bucket
\* already has with the value it has; a PTR line writes IP[ip] only when ip is
\* absent.
C5_PtrKeepsPresentKeys ==
    [][(/\ AtLine
        /\ DecodeLine(dns_cache[idx + 1]).matched
        /\ DecodeLine(dns_cache[idx + 1]).rtype = RtypePTR)
       => \A k \in DOMAIN IPof(heap[dns_table]) :
             /\ k \in DOMAIN IPof(heap'[dns_table])
             /\ IPof(heap'[dns_table])[k] = IPof(heap[dns_table])[k]]_vars

\* A PTR line of the reverse lookup of 1.2.3.4 was taken in a call that was
\* given a table with IP[1.2.3.4], and the value is not the rdata of the line.
C5_Witness ==
    /\ Taken
    /\ dns_cache[idx] = LinePTR
    /\ Ip4 \in DOMAIN IPof(entry)
    /\ IPof(heap[dns_table])[Ip4] # TxtC

\* C6: post-processing rewrites every IP entry (ip, v) with v a key of ALIAS to
\* ALIAS[v], once, and leaves everything else as it is: the other IP entries,
\* the keys of the IP bucket, the ALIAS bucket and the buckets there are.
C6_SingleHop ==
    [][(pc = "loop" /\ pc' = "return")
       => /\ DOMAIN heap'[dns_table] = DOMAIN heap[dns_table]
          /\ ALIASof(heap'[dns_table]) = ALIASof(heap[dns_table])
          /\ DOMAIN IPof(heap'[dns_table]) = DOMAIN IPof(heap[dns_table])
          /\ \A ip \in DOMAIN IPof(heap[dns_table]) :
                LET v == IPof(heap[dns_table])[ip]
                    alias == ALIASof(heap[dns_table])
                IN  IPof(heap'[dns_table])[ip] = IF v \in DOMAIN alias THEN alias[v] ELSE v]_vars

\* The call returns IP[1.2.3.4] = b, rewritten from a, with b a key of ALIAS
\* that stands for c: the second hop is not taken.
C6_Witness ==
    /\ pc = "return"
    /\ Holds(Section, LineA)
    /\ Ip4 \in DOMAIN IPof(heap[dns_table])
    /\ IPof(heap[dns_table])[Ip4] = TxtB
    /\ TxtB \in DOMAIN ALIASof(heap[dns_table])
    /\ ALIASof(heap[dns_table])[TxtB] = TxtC

\* A line with a content-level problem: a metadata line, a line that is no
\* record, a record of an unrecognized type, an SRV record whose rdata is no
\* SRV target.
Malformed(line) ==
    \/ IsMetadata(line)
    \/ ~pattern_line(line).matched
    \/ pattern_line(line).rtype \notin DnsRtype
    \/ /\ pattern_line(line).rtype = RtypeSRV
       /\ ~pattern_srv(StripDot(pattern_line(line).rdata)).matched

\* C7: the turn of the loop for a line with a content-level problem raises
\* nothing, leaves every table as it is and goes on to the next line.
C7_MalformedLinesSkipped ==
    [][(AtLine /\ Malformed(dns_cache[idx + 1]))
       => /\ heap' = heap
          /\ pc' = "loop"
          /\ idx' = idx + 1]_vars

\* A metadata line and an SRV line without target were taken, and the A line
\* after them was folded in.
C7_Witness ==
    /\ pc = "return"
    /\ Section = <<LineMeta, LineSRVBad, LineA>>
    /\ heap[dns_table] = Store(EmptyDict, "IP", Ip4, TxtA)

\* line is an A or AAAA record with address k.
IsAddressLine(line, k) ==
    /\ DecodeLine(line).matched
    /\ DecodeLine(line).rtype \in {RtypeA, RtypeAAAA}
    /\ DecodeLine(line).rdata = k

\* The name of the last A or AAAA record with address k among lines.
LastAddressName(lines, k) ==
    LET last == CHOOSE i \in 1..Len(lines) :
                    /\ IsAddressLine(lines[i], k)
                    /\ \A j \in (i + 1)..Len(lines) : ~IsAddressLine(lines[j], k)
    IN  DecodeLine(lines[last]).qname

\* For every key k the table had on entry: when lines hold A or AAAA records
\* with address k, the table returned has IP[k] = n, the name of the last of
\* them, or ALIAS[n] when n is a key of ALIAS.
Replaces(lines) ==
    \A k \in DOMAIN IPof(entry) :
        (\E i \in 1..Len(lines) : IsAddressLine(lines[i], k))
        => LET n == LastAddressName(lines, k)
               alias == ALIASof(heap[dns_table])
           IN  IPof(heap[dns_table])[k] = IF n \in DOMAIN alias THEN alias[n] ELSE n

C9_TableOnlyGrows ==
    [][/\ \A o \in DOMAIN heap \cap DOMAIN heap' :
            \A b \in DOMAIN heap[o] :
                /\ b \in DOMAIN heap'[o]
                /\ DOMAIN heap[o][b] \subseteq DOMAIN heap'[o][b]
       /\ (pc = "return" /\ pc' = "idle") => held' = dns_table]_vars

\* The second call on a table returns it with more ALIAS keys than it had.
C9_Witness ==
    /\ pc = "return"
    /\ calls = 2
    /\ dns_table = held
    /\ DOMAIN ALIASof(entry) # {}
    /\ DOMAIN ALIASof(entry) # DOMAIN ALIASof(heap[dns_table])
    /\ DOMAIN ALIASof(entry) \subseteq DOMAIN ALIASof(heap[dns_table])

\* The labels of a name: the texts between its dots.
RECURSIVE Labels(_)
Labels(s) ==
    LET dots == { i \in 1..Len(s) : s[i] = "." }
    IN  IF dots = {} THEN <<s>>
        ELSE LET d == CHOOSE i \in dots : \A j \in dots : i <= j
             IN  <<Sub(s, 1, d - 1)>> \o Labels(Sub(s, d + 1, Len(s)))

\* The number a text of digits writes.
RECURSIVE Number(_)
Number(s) ==
    IF s = <<>> THEN 0
    ELSE 10 * Number(Sub(s, 1, Len(s) - 1))
         + (CHOOSE n \in 0..9 : <<"0","1","2","3","4","5","6","7","8","9">>[n + 1] = s[Len(s)])

\* An octet: the decimal writing of a number from 0 to 255.
IsOctet(s) ==
    /\ Len(s) \in 1..3
    /\ \A i \in 1..Len(s) : s[i] \in Digit
    /\ (Len(s) > 1 => s[1] # "0")
    /\ Number(s) <= 255

\* o1.o2.o3.o4.in-addr.arpa and nothing else.
IsReverseName(qname) ==
    LET l == Labels(qname)
    IN  /\ Len(l) = 6
        /\ \A i \in 1..4 : IsOctet(l[i])
        /\ l[5] = <<"i","n","-","a","d","d","r">>
        /\ l[6] = <<"a","r","p","a">>

\* o4.o3.o2.o1
ReversedAddress(qname) ==
    LET l == Labels(qname)
    IN  l[4] \o <<".">> \o l[3] \o <<".">> \o l[2] \o <<".">> \o l[1]

\* C10: the turn of the loop for a PTR line writes IP[o4.o3.o2.o1] = rdata,
\* when that key is absent, exactly when the name is o1.o2.o3.o4.in-addr.arpa;
\* for every other name it writes ALIAS[name] = rdata and nothing else.
C10_PtrClassified ==
    [][(/\ AtLine
        /\ DecodeLine(dns_cache[idx + 1]).matched
        /\ DecodeLine(dns_cache[idx + 1]).rtype = RtypePTR)
       => LET r == DecodeLine(dns_cache[idx + 1])
              t == heap[dns_table]
          IN  heap'[dns_table] =
                IF IsReverseName(r.qname)
                THEN IF ReversedAddress(r.qname) \in DOMAIN IPof(t) THEN t
                     ELSE Store(t, "IP", ReversedAddress(r.qname), r.rdata)
                ELSE Store(t, "ALIAS", r.qname, r.rdata)]_vars

====
